---- MODULE Spec2Model ----
(***************************************************************************)
(* Model of investment.py: the yearly market clock (Market), the ledger    *)
(* (InvestmentAccount), the withdrawal strategy (BuyAndHoldStrategy.go),   *)
(* the inflation helpers and the driver (run_strategy).                    *)
(*                                                                         *)
(* Python floats are modelled by exact rationals <<n, d>> with d > 0 and   *)
(* gcd(n, d) = 1, so every statement below is about exact arithmetic.      *)
(***************************************************************************)
EXTENDS Integers, Sequences, FiniteSets, TLC

\* ------------------------------------------------------------------------
\* Bounds of the model
\* ------------------------------------------------------------------------
FirstYear == 1
MaxNumYears == 2
MaxStartYears == 2
MaxSharesArg == 2

\* prices are known for one more year than a run of MaxNumYears started in the
\* second year needs; inflation is known for all but the last of these years
LastYear == FirstYear + MaxNumYears + 1
DataYears == FirstYear..LastYear
InflationYears == FirstYear..(LastYear - 1)

\* ------------------------------------------------------------------------
\* Exact rational arithmetic
\* ------------------------------------------------------------------------
Abs(i) == IF i < 0 THEN -i ELSE i

RECURSIVE GCD(_, _)
GCD(a, b) == IF b = 0 THEN a ELSE GCD(b, a % b)

LCM(a, b) == (a \div GCD(a, b)) * b

Norm(n, d) == LET g == GCD(Abs(n), d) IN <<n \div g, d \div g>>

R(i) == <<i, 1>>
Frac(n, d) == Norm(n, d)

RAdd(a, b) == LET l == LCM(a[2], b[2])
              IN  Norm(a[1] * (l \div a[2]) + b[1] * (l \div b[2]), l)
RNeg(a) == <<-a[1], a[2]>>
RSub(a, b) == RAdd(a, RNeg(b))
RMul(a, b) == LET g1 == GCD(Abs(a[1]), b[2])
                  g2 == GCD(Abs(b[1]), a[2])
              IN  Norm((a[1] \div g1) * (b[1] \div g2), (a[2] \div g2) * (b[2] \div g1))
RInv(a) == IF a[1] < 0 THEN <<-a[2], -a[1]>> ELSE <<a[2], a[1]>>
RDiv(a, b) == RMul(a, RInv(b))
RLess(a, b) == LET l == LCM(a[2], b[2])
               IN  a[1] * (l \div a[2]) < b[1] * (l \div b[2])
RLeq(a, b) == ~RLess(b, a)
RFloor(a) == a[1] \div a[2]
RCeil(a) == -((-a[1]) \div a[2])

\* ------------------------------------------------------------------------
\* Module-level configuration and formatting helpers
\* ------------------------------------------------------------------------
STARTING_CASH == 1000000

\* f'{amount:,.0f}' and f'{x:.2f}': round to nearest, ties to even.
RoundHalfEven(a) ==
    LET f == RFloor(a)
        twice == RSub(RMul(R(2), a), R(2 * f))   \* 2 * fractional part
    IN  IF RLess(twice, R(1)) THEN f
        ELSE IF RLess(R(1), twice) THEN f + 1
        ELSE IF f % 2 = 0 THEN f ELSE f + 1

dollarstr(amount) == RoundHalfEven(amount)
Fixed2(x) == RoundHalfEven(RMul(R(100), x))
dollarstr_decimal(amount) == Fixed2(amount)
percentstr(percent) == Fixed2(RMul(percent, R(100)))

VARIABLES
    SPENDING_PERCENTAGE,      \* global set by cli()
    SPEND_FIXED_REAL_AMOUNT,  \* global set by cli()
    year_to_inflation,        \* dict year -> rate
    snp_yearly,               \* dict year -> SnpYear(open, close)
    cur_year,                 \* Market._cur_year
    at_start_of_year,         \* Market._at_start_of_year
    cash,                     \* InvestmentAccount._cash
    num_shares,               \* InvestmentAccount._num_shares
    fixed_real_withdrawal,    \* locals of BuyAndHoldStrategy.go
    year,
    start_shares,
    start_net_worth,
    this_year_withdrawal,
    num_shares_to_sell,
    ret,
    debug_info,
    start_years,              \* arguments and locals of run_strategy
    num_years,
    idx,
    display,
    pc,                       \* position of the program
    call                      \* last call made by a client of the API, with its result

vars == <<SPENDING_PERCENTAGE, SPEND_FIXED_REAL_AMOUNT, year_to_inflation, snp_yearly,
          cur_year, at_start_of_year, cash, num_shares,
          fixed_real_withdrawal, year, start_shares, start_net_worth,
          this_year_withdrawal, num_shares_to_sell, ret, debug_info,
          start_years, num_years, idx, display, pc, call>>

config_vars == <<SPENDING_PERCENTAGE, SPEND_FIXED_REAL_AMOUNT, year_to_inflation, snp_yearly>>
market_vars == <<cur_year, at_start_of_year>>
account_vars == <<cash, num_shares>>
go_vars == <<fixed_real_withdrawal, year, start_shares, start_net_worth,
             this_year_withdrawal, num_shares_to_sell, ret, debug_info>>
driver_vars == <<start_years, num_years, idx, display>>

\* ------------------------------------------------------------------------
\* Market
\* ------------------------------------------------------------------------
HasPrice(y) == y \in DOMAIN snp_yearly
HasInflation(y) == y \in DOMAIN year_to_inflation

\* (mutant) the phase is ignored and the close price is always returned
PriceAtCloseOnly(y, start) == snp_yearly[y].close

\* Market.current_price, for a clock at (y, start) with the given data
PriceAt(y, start) == IF start THEN snp_yearly[y].open ELSE snp_yearly[y].close
current_price == PriceAt(cur_year, at_start_of_year)
current_inflation == year_to_inflation[cur_year]
current_year_growth ==
    RDiv(RSub(snp_yearly[cur_year].close, snp_yearly[cur_year].open), snp_yearly[cur_year].open)

\* the two clock operations, from the clock (y, start) to the new clock
move_to_next_year(y, start) == <<y + 1, TRUE>>

\* (mutant) the phase is flipped instead of set
move_to_end_toggles(y, start) == <<y, ~start>>

move_to_end_of_current_year(y, start) == <<y, FALSE>>

\* ------------------------------------------------------------------------
\* InvestmentAccount, as functions from the ledger to the new ledger
\* ------------------------------------------------------------------------
cash_available == cash
num_shares_owned == num_shares
NetWorthOf(c, s, price) == RAdd(c, RMul(R(s), price))
net_worth == NetWorthOf(cash, num_shares, current_price)

\* buy_stock: the assertion guards the purchase (ok = FALSE is the AssertionError)
buy_stock(c, s, price, n) ==
    IF RLess(c, RMul(price, R(n)))
    THEN [ok |-> FALSE, cash |-> c, shares |-> s]
    ELSE [ok |-> TRUE, cash |-> RSub(c, RMul(price, R(n))), shares |-> s + n]

\* (mutant) the check of the shares owned is missing
sell_stock_unchecked(c, s, price, n) ==
    [ok |-> TRUE, cash |-> RAdd(c, RMul(price, R(n))), shares |-> s - n]

\* (mutant) a refused sale first sells every share that is owned
sell_stock_clamped(c, s, price, n) ==
    IF s < n
    THEN [ok |-> FALSE, cash |-> RAdd(c, RMul(price, R(s))), shares |-> 0]
    ELSE [ok |-> TRUE, cash |-> RAdd(c, RMul(price, R(n))), shares |-> s - n]

\* (mutant) selling every share that is owned is refused
sell_stock_strict(c, s, price, n) ==
    IF s <= n
    THEN [ok |-> FALSE, cash |-> c, shares |-> s]
    ELSE [ok |-> TRUE, cash |-> RAdd(c, RMul(price, R(n))), shares |-> s - n]

\* sell_stock: returns False when fewer shares are owned than asked for
sell_stock(c, s, price, n) ==
    IF s < n
    THEN [ok |-> FALSE, cash |-> c, shares |-> s]
    ELSE [ok |-> TRUE, cash |-> RAdd(c, RMul(price, R(n))), shares |-> s - n]

\* (mutant) spending exactly the cash that is there is refused
spend_cash_strict(c, amount) ==
    IF RLeq(c, amount)
    THEN [ok |-> FALSE, cash |-> c]
    ELSE [ok |-> TRUE, cash |-> RSub(c, amount)]

\* spend_cash: returns False when the cash does not cover the amount
spend_cash(c, amount) ==
    IF RLess(c, amount)
    THEN [ok |-> FALSE, cash |-> c]
    ELSE [ok |-> TRUE, cash |-> RSub(c, amount)]

\* ------------------------------------------------------------------------
\* Inflation helpers
\* ------------------------------------------------------------------------
\* the loop of get_inflation_percentage: percent *= (1 + year_to_inflation[year])
RECURSIVE InflationLoop(_, _, _)
InflationLoop(percent, y, end) ==
    IF y >= end THEN percent
    ELSE InflationLoop(RMul(percent, RAdd(R(1), year_to_inflation[y])), y + 1, end)

InflationRange(start_year, n) == start_year..(start_year + n - 1)
get_inflation_percentage(start_year, n) == InflationLoop(R(1), start_year, start_year + n)

\* (mutant) the amount is multiplied by the compounded factor
nominal_to_real_multiplies(start, start_year, n) ==
    RMul(start, get_inflation_percentage(start_year, n))

nominal_to_real(start, start_year, n) ==
    RMul(start, RDiv(R(1), get_inflation_percentage(start_year, n)))

\* ------------------------------------------------------------------------
\* Input data
\* ------------------------------------------------------------------------
Opens == {R(10000), R(300000)}
Closes == {R(20000)}
Rates == {R(0), R(1)}
Percentages == {Frac(1, 25), Frac(9, 10)}

ReferencePrices == (FirstYear :> [open |-> R(100), close |-> R(110)])
ReferenceInflation == (FirstYear :> Frac(1, 20))

PriceTables == [DataYears -> [open : Opens, close : Closes]] \cup {ReferencePrices}
InflationTables == [InflationYears -> Rates] \cup {ReferenceInflation}

\* a call of run_strategy with at most one start year, and with up to MaxStartYears
\* start years out of the first two years of the data
SingleRunLists == UNION {[1..k -> DataYears] : k \in 0..1}
StartYearLists == UNION {[1..k -> {FirstYear, FirstYear + 1}] : k \in 0..MaxStartYears}
ConstantInflationTables == {[y \in InflationYears |-> r] : r \in Rates}

NoCall == [op |-> "none"]

\* ------------------------------------------------------------------------
\* The program: run_strategy driving BuyAndHoldStrategy.go
\* ------------------------------------------------------------------------
InitGoLocals ==
    /\ fixed_real_withdrawal = R(0)
    /\ year = FirstYear
    /\ start_shares = 0
    /\ start_net_worth = R(0)
    /\ this_year_withdrawal = R(0)
    /\ num_shares_to_sell = 0
    /\ ret = <<TRUE, <<>>>>
    /\ debug_info = <<>>

InitWith(lists, price_tables, inflation_tables) ==
    /\ SPENDING_PERCENTAGE \in Percentages
    /\ SPEND_FIXED_REAL_AMOUNT \in BOOLEAN
    /\ snp_yearly \in price_tables
    /\ year_to_inflation \in inflation_tables
    /\ (DOMAIN snp_yearly = {FirstYear}) <=> (DOMAIN year_to_inflation = {FirstYear})
    /\ start_years \in lists
    /\ num_years \in 0..MaxNumYears
    /\ cur_year = FirstYear
    /\ at_start_of_year = TRUE
    /\ cash = R(0)
    /\ num_shares = 0
    /\ InitGoLocals
    /\ idx = 1
    /\ display = <<>>
    /\ pc = "run_strategy"
    /\ call = NoCall

\* (mutant) the account of the previous run is reused and topped up
StartRunSharedAccount ==
    /\ pc = "run_strategy"
    /\ idx <= Len(start_years)
    /\ cur_year' = start_years[idx]
    /\ at_start_of_year' = TRUE
    /\ cash' = RAdd(cash, R(STARTING_CASH))
    /\ num_shares' = num_shares
    /\ pc' = "go"
    /\ UNCHANGED <<config_vars, go_vars, driver_vars, call>>

\* one start year (or none) over every table, the reference scenario included
Init == InitWith(SingleRunLists, PriceTables, InflationTables)

\* lists of start years over the tables with the same inflation every year
InitDriver ==
    InitWith(StartYearLists, [DataYears -> [open : Opens, close : Closes]],
             ConstantInflationTables)

\* for year in start_years: Market(...), InvestmentAccount(STARTING_CASH, market)
StartRun ==
    /\ pc = "run_strategy"
    /\ idx <= Len(start_years)
    /\ cur_year' = start_years[idx]
    /\ at_start_of_year' = TRUE
    /\ cash' = R(STARTING_CASH)
    /\ num_shares' = 0
    /\ pc' = "go"
    /\ UNCHANGED <<config_vars, go_vars, driver_vars, call>>

\* (mutant) the number of shares bought is rounded up
GoInitCeil ==
    /\ pc = "go"
    /\ IF ~HasPrice(cur_year)
       THEN /\ pc' = "KeyError"
            /\ UNCHANGED <<account_vars, go_vars>>
       ELSE LET bought == buy_stock(cash, num_shares, current_price,
                                    RCeil(RDiv(cash_available, current_price)))
            IN  IF ~bought.ok
                THEN /\ pc' = "AssertionError"
                     /\ fixed_real_withdrawal' = RMul(cash_available, SPENDING_PERCENTAGE)
                     /\ UNCHANGED <<account_vars, year, start_shares, start_net_worth,
                                    this_year_withdrawal, num_shares_to_sell, ret, debug_info>>
                ELSE /\ fixed_real_withdrawal' = RMul(cash_available, SPENDING_PERCENTAGE)
                     /\ cash' = bought.cash
                     /\ num_shares' = bought.shares
                     /\ year' = start_years[idx]
                     /\ ret' = <<TRUE, <<>>>>
                     /\ debug_info' = <<>>
                     /\ pc' = "loop"
                     /\ UNCHANGED <<start_shares, start_net_worth,
                                    this_year_withdrawal, num_shares_to_sell>>
    /\ UNCHANGED <<config_vars, market_vars, driver_vars, call>>

\* go, before the loop: fixed_real_withdrawal, then invest everything
GoInit ==
    /\ pc = "go"
    /\ IF ~HasPrice(cur_year)
       THEN /\ pc' = "KeyError"
            /\ UNCHANGED <<account_vars, go_vars>>
       ELSE LET bought == buy_stock(cash, num_shares, current_price,
                                    RFloor(RDiv(cash_available, current_price)))
            IN  IF ~bought.ok
                THEN /\ pc' = "AssertionError"
                     /\ fixed_real_withdrawal' = RMul(cash_available, SPENDING_PERCENTAGE)
                     /\ UNCHANGED <<account_vars, year, start_shares, start_net_worth,
                                    this_year_withdrawal, num_shares_to_sell, ret, debug_info>>
                ELSE /\ fixed_real_withdrawal' = RMul(cash_available, SPENDING_PERCENTAGE)
                     /\ cash' = bought.cash
                     /\ num_shares' = bought.shares
                     /\ year' = start_years[idx]
                     /\ ret' = <<TRUE, <<>>>>
                     /\ debug_info' = <<>>
                     /\ pc' = "loop"
                     /\ UNCHANGED <<start_shares, start_net_worth,
                                    this_year_withdrawal, num_shares_to_sell>>
    /\ UNCHANGED <<config_vars, market_vars, driver_vars, call>>

\* (mutant) the test of the mode is inverted
WithdrawalModeSwapped(fixed, nw) ==
    IF SPEND_FIXED_REAL_AMOUNT THEN RMul(nw, SPENDING_PERCENTAGE) ELSE fixed

\* (mutant) the mode is ignored: the fixed amount is always withdrawn
WithdrawalAlwaysFixed(fixed, nw) == fixed

\* the withdrawal of one year, from the mode and the start-of-year net worth
Withdrawal(fixed, nw) ==
    IF SPEND_FIXED_REAL_AMOUNT THEN fixed ELSE RMul(nw, SPENDING_PERCENTAGE)

\* (mutant) the cash already in the account is not counted
SharesToSellIgnoringCash(w, c, price) == RCeil(RDiv(w, price))

\* (mutant) the quotient is rounded down
SharesToSellFloor(w, c, price) == RFloor(RDiv(RSub(w, c), price))

\* (mutant) floor + 1 instead of ceil
SharesToSellFloorPlusOne(w, c, price) == RFloor(RDiv(RSub(w, c), price)) + 1

\* math.ceil((this_year_withdrawal - cash_available) / current_price)
SharesToSell(w, c, price) == RCeil(RDiv(RSub(w, c), price))

\* for year in range(start_year, start_year + num_years): the reads before the sale
LoopHead ==
    /\ pc = "loop"
    /\ IF year >= start_years[idx] + num_years
       THEN /\ pc' = "return"
            /\ UNCHANGED go_vars
       ELSE IF ~HasPrice(cur_year)
       THEN /\ pc' = "KeyError"
            /\ UNCHANGED go_vars
       ELSE /\ start_shares' = num_shares_owned
            /\ start_net_worth' = net_worth
            /\ this_year_withdrawal' = Withdrawal(fixed_real_withdrawal, net_worth)
            /\ num_shares_to_sell' =
                   SharesToSell(Withdrawal(fixed_real_withdrawal, net_worth),
                                cash_available, current_price)
            /\ pc' = "sell"
            /\ UNCHANGED <<fixed_real_withdrawal, year, ret, debug_info>>
    /\ UNCHANGED <<config_vars, market_vars, account_vars, driver_vars, call>>

\* if not account.sell_stock(num_shares_to_sell): ran short, break
Sell ==
    /\ pc = "sell"
    /\ LET sold == sell_stock(cash, num_shares, current_price, num_shares_to_sell) IN
       /\ cash' = sold.cash
       /\ num_shares' = sold.shares
       /\ IF ~sold.ok
          THEN /\ ret' = <<FALSE, <<"ran short in", year>>>>
               /\ pc' = "return"
          ELSE /\ pc' = "spend"
               /\ UNCHANGED ret
    /\ UNCHANGED <<config_vars, market_vars, driver_vars, call, fixed_real_withdrawal, year,
                   start_shares, start_net_worth, this_year_withdrawal, num_shares_to_sell,
                   debug_info>>

\* if not account.spend_cash(this_year_withdrawal): failed to spend cash, break
Spend ==
    /\ pc = "spend"
    /\ LET spent == spend_cash(cash, this_year_withdrawal) IN
       /\ cash' = spent.cash
       /\ IF ~spent.ok
          THEN /\ ret' = <<FALSE, <<"failed to spend cash?">>>>
               /\ pc' = "return"
          ELSE /\ pc' = "end_of_year"
               /\ UNCHANGED ret
    /\ UNCHANGED num_shares
    /\ UNCHANGED <<config_vars, market_vars, driver_vars, call, fixed_real_withdrawal, year,
                   start_shares, start_net_worth, this_year_withdrawal, num_shares_to_sell,
                   debug_info>>

\* one row of debug_info, read after the clock moved to the end of the year
DebugRow(opening, closing) ==
    [year |-> year,
     start_shares |-> start_shares,
     start_net_worth |-> dollarstr(start_net_worth),
     withdrawal |-> dollarstr(this_year_withdrawal),
     shares_sold |-> num_shares_to_sell,
     unspent_cash |-> dollarstr(cash_available),
     start_share_price |-> dollarstr_decimal(opening),
     end_share_price |-> dollarstr_decimal(closing),
     inflation |-> percentstr(current_inflation),
     end_shares |-> num_shares_owned,
     end_net_worth |-> dollarstr(NetWorthOf(cash, num_shares, closing))]

\* start_share_price, market.move_to_end_of_current_year(), debug_info.append
EndOfYear ==
    /\ pc = "end_of_year"
    /\ LET clock == move_to_end_of_current_year(cur_year, at_start_of_year) IN
       /\ cur_year' = clock[1]
       /\ at_start_of_year' = clock[2]
       /\ IF ~HasInflation(clock[1])
          THEN /\ pc' = "KeyError"
               /\ UNCHANGED debug_info
          ELSE /\ debug_info' = Append(debug_info,
                                       DebugRow(current_price, PriceAt(clock[1], clock[2])))
               /\ pc' = "adjust"
    /\ UNCHANGED <<config_vars, account_vars, driver_vars, call,
                   fixed_real_withdrawal, year, start_shares, start_net_worth,
                   this_year_withdrawal, num_shares_to_sell, ret>>

\* (mutant) the withdrawal is multiplied by the rate itself
AdjustWithoutOne ==
    /\ pc = "adjust"
    /\ fixed_real_withdrawal' = RMul(fixed_real_withdrawal, current_inflation)
    /\ pc' = "next_year"
    /\ UNCHANGED <<config_vars, market_vars, account_vars, driver_vars, call, year,
                   start_shares, start_net_worth, this_year_withdrawal, num_shares_to_sell,
                   ret, debug_info>>

\* fixed_real_withdrawal *= (1 + market.current_inflation)
Adjust ==
    /\ pc = "adjust"
    /\ fixed_real_withdrawal' = RMul(fixed_real_withdrawal, RAdd(R(1), current_inflation))
    /\ pc' = "next_year"
    /\ UNCHANGED <<config_vars, market_vars, account_vars, driver_vars, call, year,
                   start_shares, start_net_worth, this_year_withdrawal, num_shares_to_sell,
                   ret, debug_info>>

\* market.move_to_next_year(), and the loop variable takes its next value
NextYear ==
    /\ pc = "next_year"
    /\ cur_year' = move_to_next_year(cur_year, at_start_of_year)[1]
    /\ at_start_of_year' = move_to_next_year(cur_year, at_start_of_year)[2]
    /\ year' = year + 1
    /\ pc' = "loop"
    /\ UNCHANGED <<config_vars, account_vars, driver_vars, call, fixed_real_withdrawal,
                   start_shares, start_net_worth, this_year_withdrawal, num_shares_to_sell,
                   ret, debug_info>>

\* return ret
Return ==
    /\ pc = "return"
    /\ pc' = "report"
    /\ UNCHANGED <<config_vars, market_vars, account_vars, go_vars, driver_vars, call>>

\* the row run_strategy appends for a run that returned status
SuccessRow(start_year, n, nominal) ==
    LET inflation == get_inflation_percentage(start_year, n)
        net_worth_real == nominal_to_real(nominal, start_year, n)
        \* (net_worth_real - STARTING_CASH) * 100 / STARTING_CASH
        remainder_percent ==
            RMul(RSub(net_worth_real, R(STARTING_CASH)), RDiv(R(100), R(STARTING_CASH)))
    IN  [years_range |-> <<start_year, start_year + n>>,
         ok |-> TRUE,
         real |-> dollarstr(net_worth_real),
         nominal |-> dollarstr(nominal),
         gain |-> Fixed2(remainder_percent),
         red |-> ~RLess(R(0), remainder_percent),
         inflation |-> Fixed2(RMul(inflation, R(100)))]

FailureRow(start_year, n, reason) ==
    [years_range |-> <<start_year, start_year + n>>, ok |-> FALSE, reason |-> reason]

\* if status[0]: ... display += [...] else: display += [[years_range, status[1], ...]]
Report ==
    /\ pc = "report"
    /\ LET sy == start_years[idx] IN
       IF ret[1]
       THEN IF \/ \E y \in InflationRange(sy, num_years) : ~HasInflation(y)
               \/ ~HasPrice(cur_year)
            THEN /\ pc' = "KeyError"
                 /\ UNCHANGED <<idx, display>>
            ELSE /\ display' = Append(display, SuccessRow(sy, num_years, net_worth))
                 /\ idx' = idx + 1
                 /\ pc' = "run_strategy"
       ELSE /\ display' = Append(display, FailureRow(sy, num_years, ret[2]))
            /\ idx' = idx + 1
            /\ pc' = "run_strategy"
    /\ UNCHANGED <<config_vars, market_vars, account_vars, go_vars, start_years, num_years, call>>

\* logger.info(tabulate(display, headers='firstrow'))
Finish ==
    /\ pc = "run_strategy"
    /\ idx > Len(start_years)
    /\ pc' = "done"
    /\ UNCHANGED <<config_vars, market_vars, account_vars, go_vars, driver_vars, call>>

Next ==
    \/ StartRun
    \/ GoInit
    \/ LoopHead
    \/ Sell
    \/ Spend
    \/ EndOfYear
    \/ Adjust
    \/ NextYear
    \/ Return
    \/ Report
    \/ Finish

Spec == Init /\ [][Next]_vars
SpecDriver == InitDriver /\ [][Next]_vars

\* ------------------------------------------------------------------------
\* BuyAndHoldStrategy.go on an account opened with any starting cash
\* ------------------------------------------------------------------------
GoStartingCash == {R(0), R(25000), R(STARTING_CASH)}
GoPercentages == {R(0), Frac(1, 25), Frac(9, 10), R(1), Frac(3, 2)}

InitGo ==
    /\ SPENDING_PERCENTAGE \in GoPercentages
    /\ SPEND_FIXED_REAL_AMOUNT \in BOOLEAN
    /\ snp_yearly \in [DataYears -> [open : Opens, close : Closes]]
    /\ year_to_inflation \in ConstantInflationTables
    /\ start_years \in SingleRunLists
    /\ num_years \in 0..MaxNumYears
    /\ cur_year = FirstYear
    /\ at_start_of_year = TRUE
    /\ cash = R(0)
    /\ num_shares = 0
    /\ InitGoLocals
    /\ idx = 1
    /\ display = <<>>
    /\ pc = "run_strategy"
    /\ call = NoCall

\* market = Market(year, ...); account = InvestmentAccount(c, market)
GoStart(c) ==
    /\ pc = "run_strategy"
    /\ idx <= Len(start_years)
    /\ cur_year' = start_years[idx]
    /\ at_start_of_year' = TRUE
    /\ cash' = c
    /\ num_shares' = 0
    /\ pc' = "go"
    /\ UNCHANGED <<config_vars, go_vars, driver_vars, call>>

NextGo ==
    \/ \E c \in GoStartingCash : GoStart(c)
    \/ GoInit
    \/ LoopHead
    \/ Sell
    \/ Spend
    \/ EndOfYear
    \/ Adjust
    \/ NextYear
    \/ Return
    \/ Report
    \/ Finish

SpecGo == InitGo /\ [][NextGo]_vars

\* ------------------------------------------------------------------------
\* The command sim_buy_and_hold: the start years, then run_strategy
\* ------------------------------------------------------------------------
\* the yearly tables: every run of years from FirstYear on, and one with a gap
SimYearSets == {FirstYear..l : l \in DataYears} \cup {{FirstYear, FirstYear + 2}}
SimNumYears == (0 - 1)..MaxNumYears
\* --only_year: not given, or one year
SimOnlyYears == {<<>>, <<FirstYear>>, <<LastYear>>}

\* sorted(set(snp_yearly.keys()))
RECURSIVE SortedYears(_)
SortedYears(S) ==
    IF S = {} THEN <<>>
    ELSE LET m == CHOOSE x \in S : \A y \in S : x <= y
         IN  <<m>> \o SortedYears(S \ {m})

\* (mutant) the start years are taken from the end of the list
DefaultStartYearsFromLatest(n) ==
    LET years == SortedYears(DOMAIN snp_yearly)
    IN  SubSeq(years, n + 1, Len(years))

\* for iyear in range(len(years) - num_years): start_years.append(years[iyear])
DefaultStartYears(n) ==
    LET years == SortedYears(DOMAIN snp_yearly)
    IN  SubSeq(years, 1, Len(years) - n)

InitSim ==
    /\ SPENDING_PERCENTAGE \in Percentages
    /\ SPEND_FIXED_REAL_AMOUNT \in BOOLEAN
    /\ \E ys \in SimYearSets :
          /\ snp_yearly \in [ys -> [open : Opens, close : Closes]]
          /\ year_to_inflation \in {[y \in ys |-> r] : r \in Rates}
    /\ start_years = <<>>
    /\ num_years \in SimNumYears
    /\ cur_year = FirstYear
    /\ at_start_of_year = TRUE
    /\ cash = R(0)
    /\ num_shares = 0
    /\ InitGoLocals
    /\ idx = 1
    /\ display = <<>>
    /\ pc = "sim_buy_and_hold"
    /\ call = NoCall

\* sim_buy_and_hold up to its call of run_strategy; years[iyear] raises IndexError
\* when the range runs past the list, which a negative num_years makes it do
SimBuyAndHold(only_year) ==
    /\ pc = "sim_buy_and_hold"
    /\ call' = [op |-> "sim_buy_and_hold", only_year |-> only_year]
    /\ IF only_year = <<>>
       THEN IF num_years < 0
            THEN /\ pc' = "IndexError"
                 /\ UNCHANGED start_years
            ELSE /\ start_years' = DefaultStartYears(num_years)
                 /\ pc' = "run_strategy"
       ELSE /\ start_years' = only_year
            /\ pc' = "run_strategy"
    /\ UNCHANGED <<config_vars, market_vars, account_vars, go_vars, num_years, idx, display>>

NextSim ==
    \/ \E only_year \in SimOnlyYears : SimBuyAndHold(only_year)
    \/ Next

SpecSim == InitSim /\ [][NextSim]_vars

TypeOK == pc \in {"run_strategy", "go", "loop", "sell", "spend", "end_of_year", "adjust",
                  "next_year", "return", "report", "done", "KeyError", "AssertionError",
                  "api", "sim_buy_and_hold", "IndexError"}

\* ------------------------------------------------------------------------
\* A client calling Market and InvestmentAccount directly
\* ------------------------------------------------------------------------
ApiOpens == {R(2)}
ApiCloses == {R(1), R(3)}
ApiStartingCash == {R(0), Frac(7, 2)}
ApiAmounts == {R(0), Frac(1, 2), Frac(5, 2)}

\* the same open and close price every year
ApiPriceTables ==
    {[y \in DataYears |-> [open |-> o, close |-> c]] : o \in ApiOpens, c \in ApiCloses}

ApiCall(op, arg, result, value) ==
    [op |-> op, arg |-> arg, ret |-> result, value |-> value,
     cash_before |-> cash, shares_before |-> num_shares,
     year_before |-> cur_year, start_before |-> at_start_of_year]

api_vars == <<SPENDING_PERCENTAGE, SPEND_FIXED_REAL_AMOUNT, year_to_inflation, snp_yearly,
              go_vars, driver_vars, pc>>

InitApi ==
    /\ SPENDING_PERCENTAGE = Frac(1, 25)
    /\ SPEND_FIXED_REAL_AMOUNT = TRUE
    /\ snp_yearly \in ApiPriceTables
    /\ year_to_inflation = [y \in InflationYears |-> R(0)]
    /\ start_years = <<>>
    /\ num_years = 0
    /\ cur_year = FirstYear
    /\ at_start_of_year = TRUE
    /\ cash \in ApiStartingCash
    /\ num_shares = 0
    /\ InitGoLocals
    /\ idx = 1
    /\ display = <<>>
    /\ pc = "api"
    /\ call = NoCall

\* market.current_price
ApiCurrentPrice ==
    /\ pc = "api"
    /\ call' = IF HasPrice(cur_year)
               THEN ApiCall("current_price", 0, "value", current_price)
               ELSE ApiCall("current_price", 0, "KeyError", R(0))
    /\ UNCHANGED <<api_vars, market_vars, account_vars>>

\* market.move_to_end_of_current_year()
ApiMoveToEnd ==
    /\ pc = "api"
    /\ cur_year' = move_to_end_of_current_year(cur_year, at_start_of_year)[1]
    /\ at_start_of_year' = move_to_end_of_current_year(cur_year, at_start_of_year)[2]
    /\ call' = ApiCall("move_to_end_of_current_year", 0, "None", R(0))
    /\ UNCHANGED <<api_vars, account_vars>>

\* market.move_to_next_year(), while the clock is within a year of the data
ApiMoveToNext ==
    /\ pc = "api"
    /\ cur_year <= LastYear
    /\ cur_year' = move_to_next_year(cur_year, at_start_of_year)[1]
    /\ at_start_of_year' = move_to_next_year(cur_year, at_start_of_year)[2]
    /\ call' = ApiCall("move_to_next_year", 0, "None", R(0))
    /\ UNCHANGED <<api_vars, account_vars>>

\* account.buy_stock(n)
ApiBuy(n) ==
    /\ pc = "api"
    /\ IF ~HasPrice(cur_year)
       THEN /\ call' = ApiCall("buy_stock", n, "KeyError", R(0))
            /\ UNCHANGED account_vars
       ELSE LET bought == buy_stock(cash, num_shares, current_price, n) IN
            /\ cash' = bought.cash
            /\ num_shares' = bought.shares
            /\ call' = ApiCall("buy_stock", n, IF bought.ok THEN "None" ELSE "AssertionError",
                               R(0))
    /\ UNCHANGED <<api_vars, market_vars>>

\* account.sell_stock(n); the log line reads the price before the check
ApiSell(n) ==
    /\ pc = "api"
    /\ IF ~HasPrice(cur_year)
       THEN /\ call' = ApiCall("sell_stock", n, "KeyError", R(0))
            /\ UNCHANGED account_vars
       ELSE LET sold == sell_stock(cash, num_shares, current_price, n) IN
            /\ cash' = sold.cash
            /\ num_shares' = sold.shares
            /\ call' = ApiCall("sell_stock", n, IF sold.ok THEN "True" ELSE "False", R(0))
    /\ UNCHANGED <<api_vars, market_vars>>

\* account.spend_cash(a)
ApiSpend(a) ==
    /\ pc = "api"
    /\ LET spent == spend_cash(cash, a) IN
       /\ cash' = spent.cash
       /\ call' = ApiCall("spend_cash", a, IF spent.ok THEN "True" ELSE "False", R(0))
    /\ UNCHANGED <<api_vars, market_vars, num_shares>>

NextApi ==
    \/ ApiCurrentPrice
    \/ ApiMoveToEnd
    \/ ApiMoveToNext
    \/ \E n \in 0..MaxSharesArg : ApiBuy(n)
    \/ \E n \in 0..MaxSharesArg : ApiSell(n)
    \/ \E a \in ApiAmounts : ApiSpend(a)

SpecApi == InitApi /\ [][NextApi]_vars

\* ------------------------------------------------------------------------
\* A client calling nominal_to_real
\* ------------------------------------------------------------------------
ConversionRates == {Frac(-1, 2), R(0), Frac(1, 4), R(1)}
ConversionAmounts == {R(-3), R(0), Frac(5, 2), R(8)}

InitConversion ==
    /\ SPENDING_PERCENTAGE = Frac(1, 25)
    /\ SPEND_FIXED_REAL_AMOUNT = TRUE
    /\ snp_yearly = [y \in DataYears |-> [open |-> R(1), close |-> R(1)]]
    /\ year_to_inflation \in [InflationYears -> ConversionRates]
    /\ start_years = <<>>
    /\ num_years = 0
    /\ cur_year = FirstYear
    /\ at_start_of_year = TRUE
    /\ cash = R(0)
    /\ num_shares = 0
    /\ InitGoLocals
    /\ idx = 1
    /\ display = <<>>
    /\ pc = "api"
    /\ call = NoCall

\* nominal_to_real(amount, start_year, n)
ApiNominalToReal(amount, start_year, n) ==
    /\ pc = "api"
    /\ call' = [op |-> "nominal_to_real", amount |-> amount, start_year |-> start_year,
                n |-> n,
                ret |-> IF \A y \in InflationRange(start_year, n) : HasInflation(y)
                        THEN "value" ELSE "KeyError",
                value |-> IF \A y \in InflationRange(start_year, n) : HasInflation(y)
                          THEN nominal_to_real(amount, start_year, n) ELSE R(0)]
    /\ UNCHANGED <<api_vars, market_vars, account_vars>>

NextConversion ==
    \E amount \in ConversionAmounts, start_year \in DataYears, n \in 0..(MaxNumYears + 1) :
        ApiNominalToReal(amount, start_year, n)

SpecConversion == InitConversion /\ [][NextConversion]_vars

\* ------------------------------------------------------------------------
\* One start year run alone, as a function of the data and the configuration
\* ------------------------------------------------------------------------
KeyErrorOutcome == [status |-> "KeyError"]

\* the yearly loop of go from the ledger (c, s) at the start of year y
RECURSIVE GoFrom(_, _, _, _, _)
GoFrom(c, s, fixed, y, end) ==
    IF y >= end THEN [status |-> "returned", ret |-> <<TRUE, <<>>>>, cash |-> c, shares |-> s]
    ELSE IF ~HasPrice(y) THEN KeyErrorOutcome
    ELSE LET price == PriceAt(y, TRUE)
             w == Withdrawal(fixed, NetWorthOf(c, s, price))
             sold == sell_stock(c, s, price, SharesToSell(w, c, price))
             spent == spend_cash(sold.cash, w)
         IN  IF ~sold.ok
             THEN [status |-> "returned", ret |-> <<FALSE, <<"ran short in", y>>>>,
                   cash |-> sold.cash, shares |-> sold.shares]
             ELSE IF ~spent.ok
             THEN [status |-> "returned", ret |-> <<FALSE, <<"failed to spend cash?">>>>,
                   cash |-> spent.cash, shares |-> sold.shares]
             ELSE IF ~HasInflation(y) THEN KeyErrorOutcome
             ELSE GoFrom(spent.cash, sold.shares,
                         RMul(fixed, RAdd(R(1), year_to_inflation[y])), y + 1, end)

\* one iteration of the loop of run_strategy on a fresh market and account
RunAlone(start_year, n) ==
    IF ~HasPrice(start_year) THEN KeyErrorOutcome
    ELSE LET price == PriceAt(start_year, TRUE)
             bought == buy_stock(R(STARTING_CASH), 0, price,
                                 RFloor(RDiv(R(STARTING_CASH), price)))
             g == GoFrom(bought.cash, bought.shares,
                         RMul(R(STARTING_CASH), SPENDING_PERCENTAGE),
                         start_year, start_year + n)
         IN  IF ~bought.ok THEN [status |-> "AssertionError"]
             ELSE IF g.status # "returned" THEN g
             ELSE IF ~g.ret[1]
             THEN [status |-> "row", row |-> FailureRow(start_year, n, g.ret[2])]
             ELSE IF \/ \E y \in InflationRange(start_year, n) : ~HasInflation(y)
                     \/ ~HasPrice(start_year + n)
             THEN KeyErrorOutcome
             ELSE [status |-> "row",
                   row |-> SuccessRow(start_year, n,
                                      NetWorthOf(g.cash, g.shares, PriceAt(start_year + n, TRUE)))]

\* ------------------------------------------------------------------------
\* Properties of a run
\* ------------------------------------------------------------------------
Running == idx <= Len(start_years)
CurStart == start_years[idx]
PrevStart == start_years[idx - 1]
RunReported == pc = "run_strategy" /\ idx > 1

IsReference ==
    /\ snp_yearly = ReferencePrices
    /\ year_to_inflation = ReferenceInflation
    /\ SPENDING_PERCENTAGE = Frac(1, 25)
    /\ SPEND_FIXED_REAL_AMOUNT
    /\ num_years = 1
    /\ Running
    /\ CurStart = FirstYear

RefRunEnded == IsReference /\ pc = "return"

RanShort == pc \in {"return", "report"} /\ ~ret[1] /\ ret[2][1] = "ran short in"

\* C2: when sell_stock fails in year y, go returns (False, "ran short in y"); the
\* clock is still at (y, start), the ledger is what it was at the start of year y,
\* no trace row exists for y, and nothing of the run changes any more.
C2_DepletedStops ==
    /\ [](RanShort =>
            /\ ret[2][2] = cur_year
            /\ year = cur_year
            /\ at_start_of_year
            /\ num_shares = start_shares
            /\ net_worth = start_net_worth
            /\ Len(debug_info) = cur_year - CurStart)
    /\ [][RanShort =>
            /\ UNCHANGED <<market_vars, account_vars, go_vars>>
            /\ pc' \in {"report", "run_strategy"}
            /\ (pc = "report" => display' = Append(display,
                                     FailureRow(CurStart, num_years, <<"ran short in", cur_year>>)))]_vars

C2_Witness == RanShort /\ pc = "report" /\ cur_year > CurStart /\ num_shares > 0

\* data for the simulated years [sy, sy + num_years) and for no later year
DataEndsWithRun(sy) ==
    /\ num_years >= 1
    /\ \A y \in sy..(sy + num_years - 1) : HasPrice(y) /\ HasInflation(y)
    /\ \A y \in DOMAIN snp_yearly \cup DOMAIN year_to_inflation : y < sy + num_years

\* prices for [sy, sy + num_years] and inflation for [sy, sy + num_years)
DataCoversFinalRead(sy) ==
    /\ \A y \in sy..(sy + num_years) : HasPrice(y)
    /\ \A y \in sy..(sy + num_years - 1) : HasInflation(y)

LoopCompleted ==
    /\ Running
    /\ pc \in {"return", "report", "KeyError"}
    /\ ret[1]
    /\ year = CurStart + num_years

\* C3 as stated: with data for [startYear, startYear + numYears) only, a run that
\* reaches the end of the loop raises no missing-data fault and reports
\* cash + shares x the close price of the last simulated year.
C3_Original ==
    /\ (LoopCompleted /\ DataEndsWithRun(CurStart)) => pc # "KeyError"
    /\ (RunReported /\ ret[1] /\ DataEndsWithRun(PrevStart)) =>
          /\ display[idx - 1].ok
          /\ display[idx - 1].nominal =
                dollarstr(NetWorthOf(cash, num_shares,
                                     snp_yearly[PrevStart + num_years - 1].close))

\* C3 amended: with prices for [startYear, startYear + numYears] and inflation for
\* [startYear, startYear + numYears) the run raises no missing-data fault, and a
\* run that reaches the end of the loop is reported as a success whose nominal net
\* worth is cash + shares x the open price of year startYear + numYears.
C3_FinalReadAtNextOpen ==
    /\ (Running /\ DataCoversFinalRead(CurStart)) => pc # "KeyError"
    /\ (RunReported /\ ret[1] /\ DataCoversFinalRead(PrevStart)) =>
          /\ display[idx - 1].ok
          /\ cur_year = PrevStart + num_years
          /\ at_start_of_year
          /\ display[idx - 1].nominal =
                dollarstr(NetWorthOf(cash, num_shares, snp_yearly[PrevStart + num_years].open))

C3_Witness ==
    /\ RunReported /\ ret[1] /\ DataCoversFinalRead(PrevStart)
    /\ num_years >= 1
    /\ num_shares > 0
    /\ display[idx - 1].ok

\* C6: every run starts from a fresh account and clock; between two runs and at
\* the end of the call the rows produced so far are, in input order, the rows of
\* the start years run alone; a call that finishes has one row per start year;
\* the call is aborted by a missing-data fault only in a start year that raises
\* it when run alone.
C6_RunsIndependent ==
    /\ Len(display) = idx - 1
    /\ pc \in {"run_strategy", "done"} =>
          \A j \in 1..Len(display) :
              RunAlone(start_years[j], num_years) = [status |-> "row", row |-> display[j]]
    /\ pc = "go" =>
          /\ cash = R(STARTING_CASH) /\ num_shares = 0
          /\ cur_year = CurStart /\ at_start_of_year
    /\ pc = "done" => Len(display) = Len(start_years)
    /\ pc = "KeyError" => RunAlone(CurStart, num_years) = KeyErrorOutcome

C6_Witness ==
    /\ pc = "done"
    /\ Len(display) = 2
    /\ ~display[1].ok
    /\ display[2].ok
    /\ start_years[1] # start_years[2]

\* C7: in percentage mode the withdrawal of every year is the net worth at the
\* open price, read before the sale, times SPENDING_PERCENTAGE, and that amount
\* is what spend_cash takes out of the cash.
C7_PercentageWithdrawal ==
    [][~SPEND_FIXED_REAL_AMOUNT =>
         /\ pc = "sell" =>
               /\ start_net_worth = NetWorthOf(cash, num_shares, snp_yearly[cur_year].open)
               /\ this_year_withdrawal = RMul(start_net_worth, SPENDING_PERCENTAGE)
         /\ (pc = "spend" /\ pc' = "end_of_year") =>
               RSub(cash, cash') = RMul(start_net_worth, SPENDING_PERCENTAGE)]_vars

C7_Witness ==
    /\ ~SPEND_FIXED_REAL_AMOUNT
    /\ pc = "end_of_year"
    /\ year > CurStart
    /\ this_year_withdrawal # fixed_real_withdrawal
    /\ dollarstr(this_year_withdrawal) # debug_info[Len(debug_info)].withdrawal

\* C10 as stated: when the computed number of shares to sell is <= 0 the sale is a
\* no-op that succeeds, and shares_owned never increases in the yearly loop.
C10_NonPositiveSaleIsNoOp ==
    [][(pc = "sell" /\ num_shares_to_sell <= 0) =>
          /\ pc' = "spend"
          /\ cash' = cash
          /\ num_shares' = num_shares]_vars

\* ------------------------------------------------------------------------
\* Properties of the account, the clock and the conversion
\* ------------------------------------------------------------------------
\* C4: from cash >= 0 and no shares, no sequence of buy_stock, sell_stock and
\* spend_cash with non-negative arguments, interleaved with clock advances, makes
\* the cash or the number of shares negative.
C4_LedgerNonNegative == RLeq(R(0), cash) /\ num_shares >= 0

C4_Witness ==
    /\ call.op = "sell_stock" /\ call.ret = "True" /\ call.arg > 0
    /\ num_shares = 0
    /\ call.year_before > FirstYear
    /\ ~call.start_before
    /\ RLess(R(0), cash)

\* the price a call is made at, read from the table by the phase before the call
PriceBefore ==
    IF call.start_before THEN snp_yearly[call.year_before].open
    ELSE snp_yearly[call.year_before].close

\* C5: sell_stock(n) returns False exactly when shares_owned < n and spend_cash(a)
\* exactly when cash < a; a False return leaves cash and shares unchanged; a True
\* return of sell_stock adds n x the price of the phase to the cash and takes n
\* shares away.
C5_RefusalsLeaveLedger ==
    /\ (call.op = "sell_stock" /\ call.ret # "KeyError") =>
          /\ call.ret = "False" <=> call.shares_before < call.arg
          /\ call.ret = "False" => (cash = call.cash_before /\ num_shares = call.shares_before)
          /\ call.ret = "True" =>
                /\ cash = RAdd(call.cash_before, RMul(R(call.arg), PriceBefore))
                /\ num_shares = call.shares_before - call.arg
    /\ call.op = "spend_cash" =>
          /\ call.ret = "False" <=> RLess(call.cash_before, call.arg)
          /\ call.ret = "False" => (cash = call.cash_before /\ num_shares = call.shares_before)

C5_Witness ==
    /\ call.op = "sell_stock" /\ call.ret = "False"
    /\ call.shares_before > 0
    /\ ~call.start_before

\* C8: a read of current_price gives the open price of the clock's year in phase
\* start and its close price in phase end; move_to_end_of_current_year leaves the
\* year and sets phase end however often it is called; move_to_next_year gives the
\* next year in phase start.
C8_ClockAndPrice ==
    /\ []((call.op = "current_price" /\ call.ret = "value") =>
             call.value = IF at_start_of_year THEN snp_yearly[cur_year].open
                          ELSE snp_yearly[cur_year].close)
    /\ [][call'.op = "move_to_end_of_current_year" =>
             (cur_year' = cur_year /\ ~at_start_of_year')]_vars
    /\ [][call'.op = "move_to_next_year" =>
             (cur_year' = cur_year + 1 /\ at_start_of_year')]_vars

C8_Witness ==
    /\ call.op = "move_to_end_of_current_year"
    /\ ~call.start_before
    /\ ~at_start_of_year
    /\ cur_year > FirstYear

\* the product of (1 + rate(y)) over a set of years
RECURSIVE CompoundedFactor(_)
CompoundedFactor(years) ==
    IF years = {} THEN R(1)
    ELSE LET y == CHOOSE z \in years : TRUE
         IN  RMul(CompoundedFactor(years \ {y}), RAdd(R(1), year_to_inflation[y]))

\* C9: nominal_to_real(amount, startYear, n) is amount divided by the product of
\* (1 + rate(y)) over [startYear, startYear + n); it is amount when n = 0, and it is
\* strictly less than amount when amount > 0, n >= 1 and every rate of the range is
\* positive.
C9_NominalToReal ==
    (call.op = "nominal_to_real" /\ call.ret = "value") =>
        LET years == {y \in DOMAIN year_to_inflation :
                         call.start_year <= y /\ y < call.start_year + call.n}
        IN  /\ RMul(call.value, CompoundedFactor(years)) = call.amount
            /\ call.n = 0 => call.value = call.amount
            /\ (/\ RLess(R(0), call.amount)
                /\ call.n >= 1
                /\ \A y \in years : RLess(R(0), year_to_inflation[y]))
               => RLess(call.value, call.amount)

C9_Witness ==
    /\ call.op = "nominal_to_real" /\ call.ret = "value"
    /\ call.n >= 2
    /\ RLess(R(0), call.amount)
    /\ \A y \in InflationRange(call.start_year, call.n) : RLess(R(0), year_to_inflation[y])
    /\ RLess(call.value, call.amount)

\* ------------------------------------------------------------------------
\* C11: whenever the sale of ceil((withdrawal - cash) / price) shares succeeded, the
\* cash covers the withdrawal, so spend_cash succeeds and no run ever ends with
\* "failed to spend cash?" (either mode, any starting cash and percentage)
C11_SpendNeverFails ==
    /\ pc = "spend" => RLeq(this_year_withdrawal, cash)
    /\ ret[1] \/ ret[2][1] # "failed to spend cash?"

\* a year whose sale was rounded up has been spent, leaving part of a share's price
C11_Witness ==
    /\ pc = "end_of_year"
    /\ num_shares_to_sell > 0
    /\ RLess(R(0), cash)
    /\ ret[1]

\* ------------------------------------------------------------------------
\* C12: in fixed-real mode the withdrawal of year y is STARTING_CASH x
\* SPENDING_PERCENTAGE x the product of (1 + rate(z)) for z in [start year, y); the
\* amount is changed only by the adjustment of year y, which runs after the year's
\* row was recorded with the clock at the end of year y, and before the clock moves on
CompoundedWithdrawal(until) ==
    RMul(RMul(R(STARTING_CASH), SPENDING_PERCENTAGE), CompoundedFactor(CurStart..(until - 1)))

C12_FixedRealWithdrawal ==
    /\ [](pc \in {"loop", "sell", "spend", "end_of_year", "adjust"}
             => fixed_real_withdrawal = CompoundedWithdrawal(year))
    /\ [](pc = "next_year" => fixed_real_withdrawal = CompoundedWithdrawal(year + 1))
    /\ [](/\ SPEND_FIXED_REAL_AMOUNT
          /\ pc \in {"sell", "spend", "end_of_year", "adjust", "next_year"}
          => this_year_withdrawal = CompoundedWithdrawal(year))
    /\ [][fixed_real_withdrawal' # fixed_real_withdrawal
             => \/ pc = "go"
                \/ /\ pc = "adjust"
                   /\ cur_year = year
                   /\ ~at_start_of_year
                   /\ Len(debug_info) = year - CurStart + 1
                   /\ cur_year' = cur_year
                   /\ fixed_real_withdrawal' =
                          RMul(fixed_real_withdrawal, RAdd(R(1), year_to_inflation[year]))]_vars

\* the second year's withdrawal of a fixed-real run, after a year of non-zero inflation
C12_Witness ==
    /\ SPEND_FIXED_REAL_AMOUNT
    /\ pc = "spend"
    /\ year = CurStart + 1
    /\ year_to_inflation[CurStart] # R(0)
    /\ this_year_withdrawal # RMul(R(STARTING_CASH), SPENDING_PERCENTAGE)

\* ------------------------------------------------------------------------
\* C13: the initial investment never trips buy_stock's assertion: with the start
\* year's open price p and starting cash c >= 0, go buys the n shares with
\* n * p <= c < (n + 1) * p, pays n * p for them, and keeps 0 <= cash < p
C13_InitialInvestment ==
    /\ [](pc # "AssertionError")
    /\ [][pc = "go" /\ HasPrice(cur_year)
             => LET p == snp_yearly[cur_year].open IN
                /\ pc' = "loop"
                /\ num_shares' >= 0
                /\ RLeq(RMul(R(num_shares'), p), cash)
                /\ RLess(cash, RMul(R(num_shares' + 1), p))
                /\ cash' = RSub(cash, RMul(R(num_shares'), p))
                /\ RLeq(R(0), cash') /\ RLess(cash', p)]_vars

\* an account whose cash is not a multiple of the open price has been invested
C13_Witness ==
    /\ pc = "loop"
    /\ year = CurStart
    /\ debug_info = <<>>
    /\ num_shares > 0
    /\ RLess(R(0), cash)

\* ------------------------------------------------------------------------
\* C14: a run is depleted in year y exactly when y is the first year whose withdrawal
\* is strictly more than the net worth at the start of the year (cash + shares x open
\* of y); when the withdrawal is at most the net worth the sale succeeds and the
\* withdrawal is spent
StartOfYearNetWorth == RAdd(cash, RMul(R(num_shares), snp_yearly[cur_year].open))

C14_DepletedIffExceedsNetWorth ==
    /\ [][pc = "sell"
             => IF RLess(StartOfYearNetWorth, this_year_withdrawal)
                THEN /\ pc' = "return"
                     /\ ret' = <<FALSE, <<"ran short in", year>>>>
                ELSE /\ pc' = "spend"
                     /\ ret'[1]]_vars
    /\ [][pc = "spend" => pc' = "end_of_year" /\ ret'[1]]_vars
    /\ [](pc \in {"loop", "sell", "spend", "end_of_year", "adjust", "next_year"} => ret[1])
    /\ [](pc \in {"return", "report"} /\ ~ret[1]
             => /\ ret[2] = <<"ran short in", year>>
                /\ cur_year = year
                /\ Len(debug_info) = year - CurStart
                /\ RLess(StartOfYearNetWorth, this_year_withdrawal))

\* a run that completed at least one year is depleted while it still has a net worth
C14_Witness ==
    /\ pc = "return"
    /\ ~ret[1]
    /\ Len(debug_info) >= 1
    /\ RLess(R(0), StartOfYearNetWorth)
    /\ RLess(StartOfYearNetWorth, this_year_withdrawal)

\* a run sells every share it owns to pay a withdrawal equal to its net worth
C14_SoldOut ==
    /\ pc = "spend"
    /\ start_shares > 0
    /\ num_shares = 0
    /\ this_year_withdrawal = start_net_worth

\* ------------------------------------------------------------------------
\* C15: after every completed yearly withdrawal the unspent cash is at least 0 and
\* less than the year's open price: the number of shares sold is the least integer
\* whose proceeds, with the cash already there, cover the withdrawal
C15_UnspentCashBelowOnePrice ==
    /\ pc = "spend"
         => LET p == snp_yearly[year].open IN
            /\ RLeq(this_year_withdrawal, cash)
            /\ RLess(RSub(cash, p), this_year_withdrawal)
    /\ pc \in {"end_of_year", "adjust", "next_year"}
         => /\ RLeq(R(0), cash)
            /\ RLess(cash, snp_yearly[year].open)

\* the second withdrawal of a run is complete and left cash in the account
C15_Witness ==
    /\ pc = "next_year"
    /\ Len(debug_info) = 2
    /\ debug_info[2].shares_sold > 0
    /\ RLess(R(0), cash)

\* ------------------------------------------------------------------------
\* C16: in percentage mode with 0 <= SPENDING_PERCENTAGE <= 1 a run is never depleted:
\* no sale and no spend is refused, and a run that returns has completed every
\* one of its num_years years and returns success
PercentageAtMostAll ==
    /\ ~SPEND_FIXED_REAL_AMOUNT
    /\ RLeq(R(0), SPENDING_PERCENTAGE)
    /\ RLeq(SPENDING_PERCENTAGE, R(1))

C16_PercentageNeverDepleted ==
    PercentageAtMostAll
        => /\ ret[1]
           /\ pc # "AssertionError"
           /\ pc = "sell" => num_shares_to_sell <= num_shares
           /\ pc \in {"return", "report"}
                => /\ year = CurStart + num_years
                   /\ Len(debug_info) = num_years
           /\ \A i \in 1..Len(display) : display[i].ok

\* a run that withdraws its whole net worth every year returns success
C16_Witness ==
    /\ ~SPEND_FIXED_REAL_AMOUNT
    /\ SPENDING_PERCENTAGE = R(1)
    /\ pc = "return"
    /\ ret[1]
    /\ Len(debug_info) >= 2
    /\ debug_info[1].shares_sold > 0

\* with a percentage above 1 the same mode does run short
C16_AboveOneDepletes ==
    /\ ~SPEND_FIXED_REAL_AMOUNT
    /\ RLess(R(1), SPENDING_PERCENTAGE)
    /\ pc = "return"
    /\ ~ret[1]

\* ------------------------------------------------------------------------
\* C17: with price and inflation data for the contiguous years first..last and
\* num_years >= 0, the default start years of sim_buy_and_hold are exactly
\* first..last-num_years in order (none when num_years is at least the number of
\* years), and every run started from them keeps the clock within first..last and
\* raises no fault, the final read of net_worth included
FirstDataYear == CHOOSE x \in DOMAIN snp_yearly : \A y \in DOMAIN snp_yearly : x <= y
LastDataYear == CHOOSE x \in DOMAIN snp_yearly : \A y \in DOMAIN snp_yearly : x >= y

ContiguousData ==
    /\ DOMAIN snp_yearly = FirstDataYear..LastDataYear
    /\ DOMAIN year_to_inflation = DOMAIN snp_yearly

DefaultEnumeration ==
    /\ call.op = "sim_buy_and_hold"
    /\ call.only_year = <<>>
    /\ num_years >= 0

C17_DefaultStartYearsInData ==
    ContiguousData /\ DefaultEnumeration
        => /\ pc \notin {"KeyError", "IndexError", "AssertionError"}
           /\ Len(start_years) =
                  IF LastDataYear - num_years >= FirstDataYear
                  THEN LastDataYear - num_years - FirstDataYear + 1
                  ELSE 0
           /\ \A i \in 1..Len(start_years) : start_years[i] = FirstDataYear + i - 1
           /\ pc \notin {"run_strategy", "done"}
                => /\ cur_year \in FirstDataYear..LastDataYear
                   /\ HasPrice(cur_year)
                   /\ pc # "go" => year \in CurStart..(CurStart + num_years)
                   /\ pc \in {"end_of_year", "adjust", "next_year"} => HasInflation(year)

\* every default run is reported, and the last one, started in last - num_years,
\* read its final net worth at the open of the last year of the data
C17_Witness ==
    /\ ContiguousData /\ DefaultEnumeration
    /\ pc = "done"
    /\ num_years >= 1
    /\ Len(start_years) >= 2
    /\ Len(display) = Len(start_years)
    /\ display[Len(display)].ok
    /\ cur_year = LastDataYear
    /\ at_start_of_year

\* the same command over data with a missing year does fault
C17_GapFaults == ~ContiguousData /\ DefaultEnumeration /\ pc = "KeyError"

====
